---------------------------- MODULE Spec2Model ----------------------------
(***************************************************************************)
(* Product database CLI (product_db.py): ULID generator, SQLite store,     *)
(* serial-number allocation and the add-device-type / create-device        *)
(* commands.                                                               *)
(*                                                                         *)
(* Strings are sequences of one-character strings, so that formatting      *)
(* (zfill, str) and parsing (regex match, int) are computed, not assumed.  *)
(* Every CLI invocation is a fresh OS process with its own connection to   *)
(* the same database file; Procs are the invocations that may overlap.     *)
(* The connection is opened with isolation_level=None, so a statement      *)
(* outside BEGIN..COMMIT is committed on its own.  SQLite's rollback       *)
(* journal locking is modelled by lock[p]: "shared" after a read inside a  *)
(* transaction, "reserved" after a write inside a transaction.             *)
(***************************************************************************)
EXTENDS Integers, Sequences, FiniteSets, TLC

(***************************************************************************)
(* Bounds of the model                                                     *)
(***************************************************************************)
MaxDevices == 3
MaxCount == 2
MaxConcurrentDevices == 2
MaxClock == 3
MaxCalls == 4
RandomBits == 2

Procs == {"p1", "p2"}

PartNumbers == {"A", "B"}

\* --manufacturer and --model (the argparse default "") of add-device-type
Manufacturers == { <<"A", "c", "m", "e">> }

Models == { <<>> }

\* the filters offered to find-device; <<>> and "" stand for an option
\* that is not given
NoFilter == [ manufacturer |-> <<>>, part_number |-> "", serial |-> <<>>, model |-> <<>> ]

FindFilters ==
  { NoFilter,
    [ NoFilter EXCEPT !.manufacturer = <<"c", "m">> ],
    [ NoFilter EXCEPT !.manufacturer = <<"a", "c">> ],
    [ NoFilter EXCEPT !.serial = <<"P", "_", "1">> ],
    [ NoFilter EXCEPT !.part_number = "A", !.serial = <<"0", "1">> ],
    [ NoFilter EXCEPT !.model = <<"x">> ] }

\* serial_number_spec values offered to add-device-type:
\* "P{2}" and "" (the argparse default)
SerialSpecs == { <<"P", "{", "2", "}">>, <<>> }

\* explicit --serial values: "P1" (digit run shorter than the width of
\* P{2}), "P01" (a serial the allocator of P{2} also produces) and "P99"
\* (the greatest number of that width)
ExplicitSerials == { <<"P", "1">>, <<"P", "0", "1">>, <<"P", "9", "9">> }

\* the inputs of the runs in which two processes overlap
ConcurrentSpecs == { <<"P", "{", "2", "}">> }

ConcurrentSerials == { <<"P", "0", "1">> }

ConcurrentCounts == {1, 2}

\* millisecond timestamps whose identifiers need two and three base-32
\* symbols (the 48-bit range is scaled down with the tail)
Timestamps == {8, 1024}

(***************************************************************************)
(* String helpers: str(), zfill(), int(), \d                               *)
(***************************************************************************)
DigitChars == <<"0", "1", "2", "3", "4", "5", "6", "7", "8", "9">>

IsDigit(c) == \E i \in 1..10 : DigitChars[i] = c

DigitVal(c) == (CHOOSE i \in 1..10 : DigitChars[i] = c) - 1

AllDigits(s) == \A i \in 1..Len(s) : IsDigit(s[i])

RECURSIVE IntToStr(_)
IntToStr(n) ==
  IF n < 10 THEN << DigitChars[n + 1] >>
  ELSE IntToStr(n \div 10) \o << DigitChars[(n % 10) + 1] >>

RECURSIVE StrToInt(_)
StrToInt(s) ==
  IF s = <<>> THEN 0
  ELSE StrToInt(SubSeq(s, 1, Len(s) - 1)) * 10 + DigitVal(s[Len(s)])

\* (variant: the digits are cut to the width)
ZFill_Truncate(s, width) ==
  IF Len(s) >= width THEN SubSeq(s, Len(s) - width + 1, Len(s))
  ELSE [i \in 1..(width - Len(s)) |-> "0"] \o s

ZFill(s, width) ==
  IF Len(s) >= width THEN s
  ELSE [i \in 1..(width - Len(s)) |-> "0"] \o s

\* a part number (one character in this model) as a sequence of characters
Chars(str) == IF str = "" THEN <<>> ELSE << str >>

UpperChars ==
  << "A", "B", "C", "D", "E", "F", "G", "H", "I", "J", "K", "L", "M",
     "N", "O", "P", "Q", "R", "S", "T", "U", "V", "W", "X", "Y", "Z" >>

LowerChars ==
  << "a", "b", "c", "d", "e", "f", "g", "h", "i", "j", "k", "l", "m",
     "n", "o", "p", "q", "r", "s", "t", "u", "v", "w", "x", "y", "z" >>

\* SQLite folds the case of ASCII letters when LIKE compares two characters
Fold(c) ==
  IF \E i \in 1..26 : UpperChars[i] = c
  THEN LowerChars[CHOOSE i \in 1..26 : UpperChars[i] = c]
  ELSE c

\* SQLite's LIKE: % matches any run of characters, _ any one character,
\* every other character itself with the case folded
RECURSIVE LikeMatch(_, _)
LikeMatch(pattern, s) ==
  IF pattern = <<>> THEN s = <<>>
  ELSE IF Head(pattern) = "%"
  THEN \E k \in 0..Len(s) : LikeMatch(Tail(pattern), SubSeq(s, k + 1, Len(s)))
  ELSE IF s = <<>> THEN FALSE
  ELSE IF Head(pattern) = "_" THEN LikeMatch(Tail(pattern), Tail(s))
  ELSE Fold(Head(pattern)) = Fold(Head(s)) /\ LikeMatch(Tail(pattern), Tail(s))

\* column LIKE ? with the parameter f"%{filter}%"
Like(field, filter) == LikeMatch(<<"%">> \o filter \o <<"%">>, field)

(***************************************************************************)
(* Serial number logic                                                     *)
(***************************************************************************)
\* re.search(r"\{(\d+)\}", spec): all <<start, end>> of "{" digits+ "}"
PlaceholderMatches(spec) ==
  { m \in (1..Len(spec)) \X (1..Len(spec)) :
      /\ spec[m[1]] = "{"
      /\ spec[m[2]] = "}"
      /\ m[2] > m[1] + 1
      /\ AllDigits(SubSeq(spec, m[1] + 1, m[2] - 1)) }

\* the leftmost match, as re.search returns it
PlaceholderMatch(spec) ==
  CHOOSE m \in PlaceholderMatches(spec) :
    \A o \in PlaceholderMatches(spec) : m[1] <= o[1]

SpecWidth(spec) ==
  StrToInt(SubSeq(spec, PlaceholderMatch(spec)[1] + 1, PlaceholderMatch(spec)[2] - 1))

SpecPrefix(spec) == SubSeq(spec, 1, PlaceholderMatch(spec)[1] - 1)

SpecSuffix(spec) == SubSeq(spec, PlaceholderMatch(spec)[2] + 1, Len(spec))

\* the digit run that pattern.fullmatch would capture
DigitRun(prefix, suffix, s) == SubSeq(s, Len(prefix) + 1, Len(s) - Len(suffix))

\* re.escape(prefix) + r"(\d+)" + re.escape(suffix), fullmatch
FullMatch(prefix, suffix, s) ==
  /\ Len(s) >= Len(prefix) + Len(suffix) + 1
  /\ SubSeq(s, 1, Len(prefix)) = prefix
  /\ SubSeq(s, Len(s) - Len(suffix) + 1, Len(s)) = suffix
  /\ AllDigits(DigitRun(prefix, suffix, s))

SetMax(S) == IF S = {} THEN 0 ELSE CHOOSE x \in S : \A y \in S : y <= x

\* the loop over rows: max_num starts at 0
MaxNum(prefix, suffix, serials) ==
  SetMax({ StrToInt(DigitRun(prefix, suffix, s)) :
             s \in { t \in serials : FullMatch(prefix, suffix, t) } })

\* (variant: the next number skips one)
NextNum_Skip(max_num) == max_num + 2

\* next_num = max_num + 1
NextNum(max_num) == max_num + 1

FormatSerial(prefix, width, suffix, next_num) ==
  prefix \o ZFill(IntToStr(next_num), width) \o suffix

\* the ValueError cases of _generate_next_serial
SpecError(spec) == spec = <<>> \/ PlaceholderMatches(spec) = {}

\* the value _generate_next_serial returns for a spec and the serials of the type
generate_next_serial(spec, serials) ==
  FormatSerial(SpecPrefix(spec), SpecWidth(spec), SpecSuffix(spec),
               NextNum(MaxNum(SpecPrefix(spec), SpecSuffix(spec), serials)))


(***************************************************************************)
(* ULID generator                                                          *)
(***************************************************************************)
CROCKFORD_ALPHABET ==
  << "0", "1", "2", "3", "4", "5", "6", "7", "8", "9", "A", "B", "C", "D", "E", "F",
     "G", "H", "J", "K", "M", "N", "P", "Q", "R", "S", "T", "V", "W", "X", "Y", "Z" >>

UlidLength == 26

RECURSIVE Pow2(_)
Pow2(n) == IF n = 0 THEN 1 ELSE 2 * Pow2(n - 1)

\* (variant: the symbols are not reversed, least significant first)
RECURSIVE encode_base32_Unreversed(_, _)
encode_base32_Unreversed(value, length) ==
  IF length = 0 THEN <<>>
  ELSE << CROCKFORD_ALPHABET[(value % 32) + 1] >>
         \o encode_base32_Unreversed(value \div 32, length - 1)

\* the loop appends the low 5 bits first and the result is reversed
RECURSIVE encode_base32(_, _)
encode_base32(value, length) ==
  IF length = 0 THEN <<>>
  ELSE encode_base32(value \div 32, length - 1) \o << CROCKFORD_ALPHABET[(value % 32) + 1] >>

\* (ts << 80) | (_last_random & ((1 << 80) - 1)), with the tail RandomBits wide
UlidInt(ts, random) == ts * Pow2(RandomBits) + (random % Pow2(RandomBits))

(***************************************************************************)
(* State                                                                   *)
(***************************************************************************)
VARIABLES
  device_type,      \* committed rows of table device_type
  device,           \* committed rows of table device
  history_entry,    \* committed rows of table history_entry
  pc,               \* position of each process in main()
  args,             \* parsed command line of each process
  dt,               \* the row get_device_type_by_part returned
  created,          \* the list `created` of create-device
  serial,           \* the local `serial` of the current iteration
  ulid,             \* the local `ulid` of add_device_type / add_device
  tx,               \* rows written inside the open transaction, not yet committed
  in_tx,            \* the connection has an open transaction (BEGIN executed)
  lock,             \* SQLite file lock held by the connection
  result,           \* how the process ended (or the exception in flight)
  written,          \* ulids of the rows the current command has committed so far
  auto_devices,     \* ulids of committed devices that --next-serial created
  raised,           \* the exception a statement of the try block raised
  rollback,         \* the handler's ROLLBACK: not executed, executed, or failed
  found,            \* the rows find-device printed
  clock,            \* int(time.time() * 1000)
  last_timestamp,   \* _last_timestamp
  last_random,      \* _last_random
  generated         \* the values new_ulid() returned, in call order

dbvars == << device_type, device, history_entry, pc, args, dt, created, serial,
             ulid, tx, in_tx, lock, result, written, auto_devices, raised, rollback,
             found >>

ulidvars == << clock, last_timestamp, last_random, generated >>

vars == << device_type, device, history_entry, pc, args, dt, created, serial,
           ulid, tx, in_tx, lock, result, written, auto_devices, raised, rollback,
           found, clock, last_timestamp, last_random, generated >>

NoArgs ==
  [ command |-> "none", part_number |-> "", manufacturer |-> <<>>, model |-> <<>>,
    serial_spec |-> <<>>, count |-> 0, next_serial |-> FALSE, serial |-> <<>> ]

NoUlid == << "none", <<>>, 0 >>

NoRow ==
  [ ulid |-> NoUlid, part_number |-> "", manufacturer_name |-> <<>>, model |-> <<>>,
    serial_number_spec |-> <<>> ]

EmptyTx == [ device_type |-> {}, device |-> {}, history_entry |-> {} ]

Init ==
  /\ device_type = {}
  /\ device = {}
  /\ history_entry = {}
  /\ pc = [p \in Procs |-> "done"]
  /\ args = [p \in Procs |-> NoArgs]
  /\ dt = [p \in Procs |-> NoRow]
  /\ created = [p \in Procs |-> <<>>]
  /\ serial = [p \in Procs |-> <<>>]
  /\ ulid = [p \in Procs |-> NoUlid]
  /\ tx = [p \in Procs |-> EmptyTx]
  /\ in_tx = [p \in Procs |-> FALSE]
  /\ lock = [p \in Procs |-> "none"]
  /\ result = [p \in Procs |-> "none"]
  /\ written = [p \in Procs |-> {}]
  /\ auto_devices = {}
  /\ raised = [p \in Procs |-> "none"]
  /\ rollback = [p \in Procs |-> "none"]
  /\ found = [p \in Procs |-> {}]
  /\ clock = 1
  /\ last_timestamp = 0
  /\ last_random = 0
  /\ generated = <<>>

(***************************************************************************)
(* Store: what a connection sees, locks, inserts                           *)
(***************************************************************************)
\* a connection reads the committed rows and its own uncommitted ones
ViewDeviceType(p) == device_type \cup tx[p].device_type

ViewDevice(p) == device \cup tx[p].device

ViewHistory(p) == history_entry \cup tx[p].history_entry

UlidsOf(rows) == { r.ulid : r \in rows }

Range(seq) == { seq[i] : i \in 1..Len(seq) }

UsedUlids(p) ==
  UlidsOf(ViewDeviceType(p)) \cup UlidsOf(ViewDevice(p)) \cup UlidsOf(ViewHistory(p))

\* new_ulid() as the store sees it: an identifier no row carries yet (the
\* generator itself is the subject of SpecUlid; a primary-key collision is
\* one of the failures an insert may report).  Ulids are only ever compared
\* for equality, so which unused value is taken is immaterial: it is named
\* after the row it is generated for, with the least unused number.
FreshUlid(p, table, key) ==
  << table, key,
     CHOOSE n \in 0..Cardinality(UsedUlids(p)) :
       /\ << table, key, n >> \notin UsedUlids(p)
       /\ \A m \in 0..(n - 1) : << table, key, m >> \in UsedUlids(p) >>

\* a write needs the RESERVED lock; committing it needs every other
\* connection to hold no lock at all
CanReserve(p) == \A q \in Procs \ {p} : lock[q] # "reserved"

CanCommit(p) == \A q \in Procs \ {p} : lock[q] = "none"

CanWrite(p) == IF in_tx[p] THEN CanReserve(p) ELSE CanCommit(p)

\* (variant: the column without its UNIQUE constraint)
SerialUnique_NoConstraint(p, serial_number) == TRUE

\* device.serial_number TEXT NOT NULL UNIQUE
SerialUnique(p, serial_number) ==
  \A d \in ViewDevice(p) : d.serial_number # serial_number

\* FOREIGN KEY(device_type) REFERENCES device_type(ulid), foreign_keys = ON
TypeExists(p, type_ulid) == \E t \in ViewDeviceType(p) : t.ulid = type_ulid

\* (variant: the check looks at the devices of the command's own type only)
SerialInUse_SameType(p, serial_number) ==
  \E d \in ViewDevice(p) :
    d.serial_number = serial_number /\ d.device_type = dt[p].ulid

\* SELECT 1 FROM device WHERE serial_number = ?
SerialInUse(p, serial_number) ==
  \E d \in ViewDevice(p) : d.serial_number = serial_number

\* (variant: the column without its UNIQUE constraint)
PartNumberUnique_NoConstraint(p, part_number) == TRUE

\* device_type.part_number TEXT NOT NULL UNIQUE
PartNumberUnique(p, part_number) ==
  \A t \in ViewDeviceType(p) : t.part_number # part_number

\* conn.execute("INSERT ..."): inside a transaction the rows stay pending,
\* outside one the statement is committed at once (isolation_level=None)
Insert(p, types, devs, hists) ==
  IF in_tx[p]
  THEN /\ tx' = [tx EXCEPT ![p] =
                   [ device_type |-> @.device_type \cup types,
                     device |-> @.device \cup devs,
                     history_entry |-> @.history_entry \cup hists ]]
       /\ lock' = [lock EXCEPT ![p] = "reserved"]
       /\ UNCHANGED << device_type, device, history_entry, written >>
  ELSE /\ device_type' = device_type \cup types
       /\ device' = device \cup devs
       /\ history_entry' = history_entry \cup hists
       /\ written' = [written EXCEPT ![p] =
                        @ \cup UlidsOf(types) \cup UlidsOf(devs) \cup UlidsOf(hists)]
       /\ UNCHANGED << tx, lock >>


\* a read inside a transaction takes (and keeps) the SHARED lock
ReadLock(p) ==
  lock' = [lock EXCEPT ![p] = IF in_tx[p] /\ @ = "none" THEN "shared" ELSE @]

\* the connection is closed (COMMIT, ROLLBACK or the end of the process):
\* what is still pending is discarded and the locks are released
CloseConnection(p) ==
  /\ tx' = [tx EXCEPT ![p] = EmptyTx]
  /\ in_tx' = [in_tx EXCEPT ![p] = FALSE]
  /\ lock' = [lock EXCEPT ![p] = "none"]

\* the process ends: its locals are gone, its exit status and output stay
ProcessExit(p, status) ==
  /\ pc' = [pc EXCEPT ![p] = "done"]
  /\ result' = [result EXCEPT ![p] = status]
  /\ dt' = [dt EXCEPT ![p] = NoRow]
  /\ serial' = [serial EXCEPT ![p] = <<>>]
  /\ ulid' = [ulid EXCEPT ![p] = NoUlid]

\* a statement that fails changes no row
NoInsert == UNCHANGED << device_type, device, history_entry, written >>

\* outcome of an INSERT: storage failure (injected, or the lock is busy),
\* else constraint failure, else success
InsertOutcome(p, fault, constraints) ==
  IF fault \/ ~CanWrite(p) THEN "OperationalError"
  ELSE IF ~constraints THEN "IntegrityError"
  ELSE "ok"

(***************************************************************************)
(* add-device-type                                                         *)
(***************************************************************************)
\* main(): parse_args, ProductDB(args.db), command add-device-type
StartAddDeviceType(p, specs) ==
  /\ pc[p] = "done"
  /\ \E part \in PartNumbers, manufacturer \in Manufacturers, model \in Models,
        spec \in specs :
       args' = [args EXCEPT ![p] =
                  [ NoArgs EXCEPT !.command = "add-device-type", !.part_number = part,
                                  !.manufacturer = manufacturer, !.model = model,
                                  !.serial_spec = spec ]]
  /\ pc' = [pc EXCEPT ![p] = "insert_type"]
  /\ result' = [result EXCEPT ![p] = "running"]
  /\ created' = [created EXCEPT ![p] = <<>>]
  /\ written' = [written EXCEPT ![p] = {}]
  /\ raised' = [raised EXCEPT ![p] = "none"]
  /\ rollback' = [rollback EXCEPT ![p] = "none"]
  /\ UNCHANGED << device_type, device, history_entry, dt, serial, ulid, tx, in_tx,
                  lock, auto_devices >>
  /\ found' = [found EXCEPT ![p] = {}]
  /\ UNCHANGED ulidvars

\* add_device_type: ulid = new_ulid(); INSERT INTO device_type.  An
\* exception is not caught: the process ends with it.
add_device_type(p) ==
  /\ pc[p] = "insert_type"
  /\ \E fault \in BOOLEAN :
       LET id == FreshUlid(p, "device_type", << args[p].part_number >>)
           outcome == InsertOutcome(p, fault, PartNumberUnique(p, args[p].part_number))
       IN IF outcome = "ok"
          THEN /\ Insert(p, { [ ulid |-> id, part_number |-> args[p].part_number,
                                manufacturer_name |-> args[p].manufacturer,
                                model |-> args[p].model,
                                serial_number_spec |-> args[p].serial_spec ] }, {}, {})
               /\ ulid' = [ulid EXCEPT ![p] = id]
               /\ pc' = [pc EXCEPT ![p] = "type_history"]
               /\ UNCHANGED << result, dt, serial, in_tx >>
          ELSE /\ NoInsert
               /\ ProcessExit(p, outcome)
               /\ CloseConnection(p)
  /\ UNCHANGED << args, created, auto_devices, raised, rollback >>
  /\ UNCHANGED found
  /\ UNCHANGED ulidvars

\* _history: INSERT INTO history_entry with a new ulid
HistoryRow(id, entity_ulid, operation) ==
  [ ulid |-> id, entity_ulid |-> entity_ulid, operation |-> operation ]

\* add_device_type: self._history(ulid, "CREATE_DEVICE_TYPE", ...); return ulid;
\* main prints the ulid
add_device_type_history(p) ==
  /\ pc[p] = "type_history"
  /\ \E fault \in BOOLEAN :
       LET id == FreshUlid(p, "history_entry", ulid[p][2])
           outcome == InsertOutcome(p, fault, TRUE)
       IN IF outcome = "ok"
          THEN /\ Insert(p, {}, {}, { HistoryRow(id, ulid[p], "CREATE_DEVICE_TYPE") })
               /\ ProcessExit(p, "ok")
               /\ UNCHANGED in_tx
          ELSE /\ NoInsert
               /\ ProcessExit(p, outcome)
               /\ CloseConnection(p)
  /\ UNCHANGED << args, created, auto_devices, raised, rollback >>
  /\ UNCHANGED found
  /\ UNCHANGED ulidvars

(***************************************************************************)
(* create-device                                                           *)
(***************************************************************************)
\* except Exception: db.conn.execute("ROLLBACK"); raise.  The handler undoes
\* the open transaction and the process ends with the error; ROLLBACK
\* without an open transaction raises its own error, which replaces it.
RollbackStatus(p, error) == IF in_tx[p] THEN error ELSE "NoTransactionError"

\* the handler has caught `error` and executes ROLLBACK
Handler(p, error) ==
  /\ raised' = [raised EXCEPT ![p] = error]
  /\ rollback' = [rollback EXCEPT ![p] = IF in_tx[p] THEN "executed" ELSE "failed"]

Except(p, error) ==
  /\ Handler(p, error)
  /\ ProcessExit(p, RollbackStatus(p, error))
  /\ CloseConnection(p)
  /\ UNCHANGED << device_type, device, history_entry, written, auto_devices >>

\* (variant: no transaction is opened)
Begin_NoTransaction(p) == UNCHANGED in_tx

\* db.conn.execute("BEGIN")
Begin(p) == in_tx' = [in_tx EXCEPT ![p] = TRUE]

\* main(): parse_args, ProductDB(args.db), get_device_type_by_part
\* (SystemExit "Unknown part number" when there is no such row), BEGIN
StartCreateDevice(p, counts, serials, max_devices) ==
  /\ pc[p] = "done"
  /\ \E part \in PartNumbers, count \in counts, next_serial \in BOOLEAN,
        s \in serials, fault \in BOOLEAN :
       /\ Cardinality(device) + count <= max_devices
       /\ args' = [args EXCEPT ![p] =
                     [ NoArgs EXCEPT !.command = "create-device", !.part_number = part,
                                     !.count = count, !.next_serial = next_serial,
                                     !.serial = IF next_serial THEN <<>> ELSE s ]]
       /\ IF ~\E t \in device_type : t.part_number = part
          THEN /\ ProcessExit(p, "UnknownPartNumber")
               /\ raised' = [raised EXCEPT ![p] = "none"]
               /\ rollback' = [rollback EXCEPT ![p] = "none"]
               /\ UNCHANGED << tx, in_tx, lock >>
          ELSE IF fault
          THEN /\ Handler(p, "OperationalError")
               /\ ProcessExit(p, RollbackStatus(p, "OperationalError"))
               /\ UNCHANGED << tx, in_tx, lock >>
          ELSE /\ dt' = [dt EXCEPT ![p] =
                           CHOOSE t \in device_type : t.part_number = part]
               /\ Begin(p)
               /\ pc' = [pc EXCEPT ![p] = "loop"]
               /\ result' = [result EXCEPT ![p] = "running"]
               /\ raised' = [raised EXCEPT ![p] = "none"]
               /\ rollback' = [rollback EXCEPT ![p] = "none"]
               /\ UNCHANGED << serial, ulid, tx, lock >>
  /\ created' = [created EXCEPT ![p] = <<>>]
  /\ written' = [written EXCEPT ![p] = {}]
  /\ UNCHANGED << device_type, device, history_entry, auto_devices >>
  /\ found' = [found EXCEPT ![p] = {}]
  /\ UNCHANGED ulidvars

\* (variant: the body runs once before the count is looked at)
InRange_AtLeastOnce(p) == Len(created[p]) < args[p].count \/ Len(created[p]) = 0

\* for _ in range(args.count): another iteration follows
InRange(p) == Len(created[p]) < args[p].count

\* the serials SELECT serial_number FROM device WHERE device_type = ? returns
SerialsOfType(p, type_ulid) ==
  { d.serial_number : d \in { e \in ViewDevice(p) : e.device_type = type_ulid } }

\* loop iteration with --next-serial: serial = db._generate_next_serial(dt["ulid"])
GenerateNextSerial(p) ==
  /\ pc[p] = "loop"
  /\ InRange(p)
  /\ args[p].next_serial
  /\ \E fault \in BOOLEAN :
       IF fault
       THEN Except(p, "OperationalError")
       ELSE IF SpecError(dt[p].serial_number_spec)
       THEN Except(p, "ValueError")
       ELSE /\ pc' = [pc EXCEPT ![p] = "insert_device"]
            /\ serial' = [serial EXCEPT ![p] =
                 generate_next_serial(dt[p].serial_number_spec,
                                      SerialsOfType(p, dt[p].ulid))]
            /\ ReadLock(p)
            /\ UNCHANGED << device_type, device, history_entry, written, auto_devices,
                            result, dt, ulid, tx, in_tx, raised, rollback >>
  /\ UNCHANGED << args, created >>
  /\ UNCHANGED found
  /\ UNCHANGED ulidvars

\* loop iteration with --serial: SELECT 1 FROM device WHERE serial_number = ?;
\* raise SystemExit("Serial exists") is not an Exception, so the handler
\* does not run: the process ends and its connection is closed
CheckSerial(p) ==
  /\ pc[p] = "loop"
  /\ InRange(p)
  /\ ~args[p].next_serial
  /\ \E fault \in BOOLEAN :
       IF fault
       THEN Except(p, "OperationalError")
       ELSE IF SerialInUse(p, args[p].serial)
       THEN /\ raised' = [raised EXCEPT ![p] = "SerialExists"]
            /\ ProcessExit(p, "SerialExists")
            /\ CloseConnection(p)
            /\ UNCHANGED << device_type, device, history_entry, written, auto_devices,
                            rollback >>
       ELSE /\ pc' = [pc EXCEPT ![p] = "insert_device"]
            /\ serial' = [serial EXCEPT ![p] = args[p].serial]
            /\ ReadLock(p)
            /\ UNCHANGED << device_type, device, history_entry, written, auto_devices,
                            result, dt, ulid, tx, in_tx, raised, rollback >>
  /\ UNCHANGED << args, created >>
  /\ UNCHANGED found
  /\ UNCHANGED ulidvars

\* add_device: ulid = new_ulid(); INSERT INTO device
add_device(p) ==
  /\ pc[p] = "insert_device"
  /\ \E fault \in BOOLEAN :
       LET id == FreshUlid(p, "device", serial[p])
           outcome == InsertOutcome(p, fault,
                        SerialUnique(p, serial[p]) /\ TypeExists(p, dt[p].ulid))
       IN IF outcome = "ok"
          THEN /\ Insert(p, {}, { [ ulid |-> id, device_type |-> dt[p].ulid,
                                    part_number |-> dt[p].part_number,
                                    serial_number |-> serial[p] ] }, {})
               /\ ulid' = [ulid EXCEPT ![p] = id]
               /\ pc' = [pc EXCEPT ![p] = "insert_history"]
               /\ UNCHANGED << result, dt, serial, in_tx, auto_devices, raised, rollback >>
          ELSE Except(p, outcome)
  /\ UNCHANGED << args, created >>
  /\ UNCHANGED found
  /\ UNCHANGED ulidvars

\* add_device: self._history(ulid, "CREATE_DEVICE", ...); return ulid;
\* main: created.append({"device_ulid": ulid, "serial": serial})
add_device_history(p) ==
  /\ pc[p] = "insert_history"
  /\ \E fault \in BOOLEAN :
       LET id == FreshUlid(p, "history_entry", ulid[p][2])
           outcome == InsertOutcome(p, fault, TRUE)
       IN IF outcome = "ok"
          THEN /\ Insert(p, {}, {}, { HistoryRow(id, ulid[p], "CREATE_DEVICE") })
               /\ created' = [created EXCEPT ![p] =
                    Append(@, [ device_ulid |-> ulid[p], serial |-> serial[p] ])]
               /\ pc' = [pc EXCEPT ![p] = "loop"]
               /\ UNCHANGED << result, dt, serial, ulid, in_tx, auto_devices, raised,
                               rollback >>
          ELSE /\ Except(p, outcome)
               /\ UNCHANGED created
  /\ UNCHANGED args
  /\ UNCHANGED found
  /\ UNCHANGED ulidvars

\* after the loop: db.conn.execute("COMMIT"); print the created list
Commit(p) ==
  /\ pc[p] = "loop"
  /\ ~InRange(p)
  /\ \E fault \in BOOLEAN :
       IF fault \/ ~in_tx[p] \/ (lock[p] = "reserved" /\ ~CanCommit(p))
       THEN Except(p, "OperationalError")
       ELSE /\ device_type' = device_type \cup tx[p].device_type
            /\ device' = device \cup tx[p].device
            /\ history_entry' = history_entry \cup tx[p].history_entry
            /\ written' = [written EXCEPT ![p] =
                             @ \cup UlidsOf(tx[p].device_type) \cup UlidsOf(tx[p].device)
                               \cup UlidsOf(tx[p].history_entry)]
            /\ auto_devices' =
                 IF args[p].next_serial
                 THEN auto_devices \cup { c.device_ulid : c \in Range(created[p]) }
                 ELSE auto_devices
            /\ CloseConnection(p)
            /\ ProcessExit(p, "ok")
            /\ UNCHANGED << raised, rollback >>
  /\ UNCHANGED << args, created >>
  /\ UNCHANGED found
  /\ UNCHANGED ulidvars

(***************************************************************************)
(* find-device                                                             *)
(***************************************************************************)
\* device d JOIN device_type dt ON d.device_type = dt.ulid, with the columns
\* d.*, dt.model AS model, dt.manufacturer_name
JoinedRows(p) ==
  { [ ulid |-> x[1].ulid, device_type |-> x[1].device_type,
      part_number |-> x[1].part_number, serial_number |-> x[1].serial_number,
      model |-> x[2].model, manufacturer_name |-> x[2].manufacturer_name ] :
      x \in { y \in ViewDevice(p) \X ViewDeviceType(p) : y[1].device_type = y[2].ulid } }

\* the rows the query returns: a filter that is given (truthy) adds
\* AND column LIKE '%filter%'
find_devices(p, manufacturer, part_number, serial_number, model) ==
  { r \in JoinedRows(p) :
      /\ manufacturer # <<>> => Like(r.manufacturer_name, manufacturer)
      /\ part_number # <<>> => Like(Chars(r.part_number), part_number)
      /\ serial_number # <<>> => Like(r.serial_number, serial_number)
      /\ model # <<>> => Like(r.model, model) }

\* main(): parse_args, ProductDB(args.db), command find-device: one SELECT,
\* then the rows are printed
FindDevice(p, filters) ==
  /\ pc[p] = "done"
  /\ \E f \in filters, fault \in BOOLEAN :
       /\ args' = [args EXCEPT ![p] =
                     [ NoArgs EXCEPT !.command = "find-device",
                                     !.manufacturer = f.manufacturer,
                                     !.part_number = f.part_number,
                                     !.serial = f.serial, !.model = f.model ]]
       /\ IF fault
          THEN /\ found' = [found EXCEPT ![p] = {}]
               /\ ProcessExit(p, "OperationalError")
          ELSE /\ found' = [found EXCEPT ![p] =
                    find_devices(p, f.manufacturer, Chars(f.part_number), f.serial, f.model)]
               /\ ProcessExit(p, "ok")
  /\ created' = [created EXCEPT ![p] = <<>>]
  /\ written' = [written EXCEPT ![p] = {}]
  /\ raised' = [raised EXCEPT ![p] = "none"]
  /\ rollback' = [rollback EXCEPT ![p] = "none"]
  /\ UNCHANGED << device_type, device, history_entry, tx, in_tx, lock, auto_devices >>
  /\ UNCHANGED ulidvars

(***************************************************************************)
(* new_ulid                                                                *)
(***************************************************************************)
\* time passes: the millisecond clock advances
Tick ==
  /\ clock < MaxClock
  /\ clock' = clock + 1
  /\ UNCHANGED << last_timestamp, last_random, generated >>
  /\ UNCHANGED dbvars

\* time passes by any amount: the clock reads a later timestamp
TimePasses ==
  /\ \E ts \in Timestamps : ts > clock /\ clock' = ts
  /\ UNCHANGED << last_timestamp, last_random, generated >>
  /\ UNCHANGED dbvars

\* the tail after this call: incremented on a clock tie, else os.urandom(10)
NextRandoms(ts) ==
  IF ts = last_timestamp THEN { last_random + 1 }
  ELSE 0..(Pow2(RandomBits) - 1)

\* one call of new_ulid(); the lock makes the body one step
new_ulid ==
  /\ Len(generated) < MaxCalls
  /\ \E r \in NextRandoms(clock) :
       /\ last_random' = r
       /\ last_timestamp' = clock
       /\ generated' = Append(generated, encode_base32(UlidInt(clock, r), UlidLength))
  /\ UNCHANGED clock
  /\ UNCHANGED dbvars

(***************************************************************************)
(* Specifications                                                          *)
(***************************************************************************)
Step(p) ==
  \/ add_device_type(p)
  \/ add_device_type_history(p)
  \/ GenerateNextSerial(p)
  \/ CheckSerial(p)
  \/ add_device(p)
  \/ add_device_history(p)
  \/ Commit(p)

\* invocations one after the other
Next ==
  \/ StartAddDeviceType("p1", SerialSpecs)
  \/ StartCreateDevice("p1", 0..MaxCount, ExplicitSerials, MaxDevices)
  \/ Step("p1")

Spec == Init /\ [][Next]_vars

\* invocations one after the other, queries among them; the batches are
\* of one device or of none (--count 0 and --count -1)
NextFind ==
  \/ StartAddDeviceType("p1", ConcurrentSpecs)
  \/ StartCreateDevice("p1", (-1)..1, ExplicitSerials, MaxDevices)
  \/ FindDevice("p1", FindFilters)
  \/ Step("p1")

SpecFind == Init /\ [][NextFind]_vars

\* invocations by several processes that may overlap
NextConcurrent ==
  \E p \in Procs :
    \/ StartAddDeviceType(p, ConcurrentSpecs)
    \/ StartCreateDevice(p, ConcurrentCounts, ConcurrentSerials, MaxConcurrentDevices)
    \/ Step(p)

SpecConcurrent == Init /\ [][NextConcurrent]_vars

NextUlid == Tick \/ new_ulid

SpecUlid == Init /\ [][NextUlid]_vars

\* the generator with timestamps far apart
NextEncode == TimePasses \/ new_ulid

SpecEncode == Init /\ [][NextEncode]_vars

(***************************************************************************)
(* Properties                                                              *)
(***************************************************************************)
Finished(p, command) == pc[p] = "done" /\ args[p].command = command

Failed(p) == result[p] \notin {"none", "running", "ok"}

DevicesOfType(t) == { d \in device : d.device_type = t.ulid }

\* the numbers carried by the serials of the devices of type t
NumbersOfType(t) ==
  { StrToInt(DigitRun(SpecPrefix(t.serial_number_spec), SpecSuffix(t.serial_number_spec),
                      d.serial_number)) : d \in DevicesOfType(t) }

\* C1: in every committed state of the store no two device rows have the
\* same serial_number, whatever commands, by one process or by overlapping
\* ones, produced the state.
C1_SerialNumbersUnique ==
  \A d1 \in device : \A d2 \in device :
    d1.serial_number = d2.serial_number => d1 = d2

\* C1 witness: devices are committed and a create-device that would have
\* repeated a serial has been refused by the store.
C1_Witness ==
  /\ Cardinality(device) >= 2
  /\ \E p \in Procs : Finished(p, "create-device") /\ result[p] = "IntegrityError"

\* the type a finished create-device named by --part-number
TypeOfCommand(p) == CHOOSE t \in device_type : t.part_number = args[p].part_number

\* the shape the specification gives a conforming serial: prefix, then
\* width or more digits, then suffix
Conforms(prefix, width, suffix, s) ==
  FullMatch(prefix, suffix, s) /\ Len(DigitRun(prefix, suffix, s)) >= width

\* the greatest number among the conforming serials, 0 when there is none
ConformingMax(prefix, width, suffix, serials) ==
  SetMax({ StrToInt(DigitRun(prefix, suffix, s)) :
             s \in { t \in serials : Conforms(prefix, width, suffix, t) } })

\* order of Python strings over the Crockford alphabet
CharIndex(c) == CHOOSE i \in 1..32 : CROCKFORD_ALPHABET[i] = c

LexLess(a, b) ==
  \/ Len(a) < Len(b) /\ SubSeq(b, 1, Len(a)) = a
  \/ \E k \in 1..Len(a) :
       /\ k <= Len(b)
       /\ SubSeq(a, 1, k - 1) = SubSeq(b, 1, k - 1)
       /\ CharIndex(a[k]) < CharIndex(b[k])

\* C2: the identifiers new_ulid() returns in one process are pairwise
\* distinct and non-decreasing in call order, also within one millisecond.
C2_UlidsDistinctAndOrdered ==
  \A i \in 1..Len(generated) : \A j \in 1..Len(generated) :
    i < j => generated[i] # generated[j] /\ LexLess(generated[i], generated[j])

\* C3: a create-device batch is all-or-nothing: nothing of it is committed
\* before COMMIT, and when it fails in any iteration none of its rows is in
\* the committed store and no transaction of it is left.
C3_BatchAllOrNothing ==
  \A p \in Procs :
    args[p].command = "create-device"
      => /\ (pc[p] # "done" \/ Failed(p)) => written[p] = {}
         /\ (pc[p] = "done" /\ Failed(p)) => tx[p] = EmptyTx /\ ~in_tx[p]

\* C3 witness: a batch has failed after at least one of its devices had
\* been inserted.
C3_Witness ==
  \E p \in Procs :
    /\ Finished(p, "create-device")
    /\ Failed(p)
    /\ Len(created[p]) >= 1

\* C4: every failed mutating operation leaves the store as it was before
\* the call: none of its rows is committed.
C4_FailedOperationLeavesStore ==
  \A p \in Procs : (pc[p] = "done" /\ Failed(p)) => written[p] = {}

\* C5: a successful --next-serial batch of N on a type whose greatest
\* conforming number is M returns the serials numbered M+1..M+N in order,
\* and exactly those N devices are added.
C5_ConsecutiveBatch ==
  \A p \in Procs :
    (Finished(p, "create-device") /\ result[p] = "ok" /\ args[p].next_serial)
      => LET t == TypeOfCommand(p)
             spec == t.serial_number_spec
             before == { d.serial_number :
                           d \in { e \in DevicesOfType(t) : e.ulid \notin written[p] } }
             M == ConformingMax(SpecPrefix(spec), SpecWidth(spec), SpecSuffix(spec), before)
             n == IF args[p].count > 0 THEN args[p].count ELSE 0
         IN /\ Len(created[p]) = n
            /\ \A i \in 1..n :
                 created[p][i].serial =
                   FormatSerial(SpecPrefix(spec), SpecWidth(spec), SpecSuffix(spec), M + i)
            /\ { << d.ulid, d.serial_number >> : d \in { e \in device : e.ulid \in written[p] } }
                 = { << created[p][i].device_ulid, created[p][i].serial >> : i \in 1..n }

\* C6: _generate_next_serial returns the serial numbered max+1, max being
\* the greatest number among the type's serials of the shape prefix + (width
\* or more digits) + suffix; every other serial is ignored.
C6_NextSerialFromConforming ==
  \A p \in Procs :
    (pc[p] = "insert_device" /\ args[p].next_serial)
      => LET spec == dt[p].serial_number_spec
         IN serial[p] =
              FormatSerial(SpecPrefix(spec), SpecWidth(spec), SpecSuffix(spec),
                ConformingMax(SpecPrefix(spec), SpecWidth(spec), SpecSuffix(spec),
                              SerialsOfType(p, dt[p].ulid)) + 1)

\* C7: the serials of a device type whose devices were all created by
\* --next-serial carry exactly the numbers 1..k: none skipped, none repeated,
\* through successful and rolled-back invocations.
C7_NoGapNoRepeat ==
  \A t \in device_type :
    (DevicesOfType(t) # {} /\ \A d \in DevicesOfType(t) : d.ulid \in auto_devices)
      => /\ ~SpecError(t.serial_number_spec)
         /\ \A d \in DevicesOfType(t) :
              FullMatch(SpecPrefix(t.serial_number_spec),
                        SpecSuffix(t.serial_number_spec), d.serial_number)
         /\ NumbersOfType(t) = 1..Cardinality(DevicesOfType(t))

\* C7 witness: a type holds two allocated devices while another invocation
\* has failed and was rolled back.
C7_Witness ==
  /\ \E t \in device_type :
       /\ Cardinality(DevicesOfType(t)) >= 2
       /\ \A d \in DevicesOfType(t) : d.ulid \in auto_devices
  /\ \E p \in Procs : Finished(p, "create-device") /\ Failed(p)

\* C8: in every committed state that a sequence of commands has reached
\* (no command is still running), every device has exactly one CREATE_DEVICE
\* history entry, every device type exactly one CREATE_DEVICE_TYPE entry, and
\* no history entry names anything else.
C8_HistoryExact ==
  (\A p \in Procs : pc[p] = "done")
    => /\ \A d \in device :
            Cardinality({ h \in history_entry :
              h.entity_ulid = d.ulid /\ h.operation = "CREATE_DEVICE" }) = 1
       /\ \A t \in device_type :
            Cardinality({ h \in history_entry :
              h.entity_ulid = t.ulid /\ h.operation = "CREATE_DEVICE_TYPE" }) = 1
       /\ \A h \in history_entry :
            h.entity_ulid \in UlidsOf(device) \cup UlidsOf(device_type)

C10_AmbiguousSerial ==
  \A p \in Procs :
    ( /\ Finished(p, "create-device")
      /\ ~args[p].next_serial
      /\ args[p].count > 1
      /\ result[p] \notin {"UnknownPartNumber", "OperationalError", "NoTransactionError"} )
      => result[p] = "AmbiguousSerial" /\ written[p] = {}

\* C11: add_device_type with a part_number that a device type already has
\* fails and commits no row (device_type and history_entry stay as they
\* were); in every reachable state no two device_type rows share a
\* part_number.
C11_DuplicatePartNumberRejected ==
  /\ \A t1 \in device_type : \A t2 \in device_type :
       t1.part_number = t2.part_number => t1 = t2
  /\ \A p \in Procs :
       ( /\ Finished(p, "add-device-type")
         /\ \E t \in device_type :
              t.part_number = args[p].part_number /\ t.ulid \notin written[p] )
         => Failed(p) /\ written[p] = {}

\* C11 witness: a registration was refused by the UNIQUE constraint while
\* the type of that part number is in the table.
C11_Witness ==
  \E p \in Procs :
    /\ Finished(p, "add-device-type")
    /\ result[p] = "IntegrityError"
    /\ \E t \in device_type : t.part_number = args[p].part_number

\* C12: with several processes issuing mutating commands, no two of them
\* have an open transaction at the same time, and while a create-device is
\* between its scan for the maximum serial and the insert of the serial it
\* computed, no other process is between its own scan and insert.
C12_SingleWriter ==
  \A p \in Procs : \A q \in Procs \ {p} :
    /\ ~(in_tx[p] /\ in_tx[q])
    /\ ~(pc[p] = "insert_device" /\ args[p].next_serial /\ pc[q] = "insert_device")

\* C13: whenever a statement inside the create-device transaction has
\* failed, the explicit-serial conflict "Serial exists" included, a ROLLBACK
\* has been executed on the connection by the time the command has ended
\* with the error.
C13_RollbackBeforeError ==
  \A p \in Procs :
    (Finished(p, "create-device") /\ raised[p] # "none") => rollback[p] # "none"

\* C19: a storage error raised by a statement of create-device (BEGIN, an
\* insert, COMMIT) is the error the command ends with: it is not replaced by
\* an error of the rollback handler.
C19_StorageErrorUnchanged ==
  \A p \in Procs :
    ( /\ Finished(p, "create-device")
      /\ raised[p] \in {"OperationalError", "IntegrityError"} )
      => result[p] = raised[p]

\* C14: a call of new_ulid() in the millisecond of the previous call, made
\* when the previous tail was the greatest one (all tail bits set), returns
\* an identifier different from and strictly greater than every identifier
\* returned before.
C14_TailOverflowHandled ==
  [][ ( /\ Len(generated') = Len(generated) + 1
        /\ clock = last_timestamp
        /\ last_random % Pow2(RandomBits) = Pow2(RandomBits) - 1 )
      => \A i \in 1..Len(generated) :
           /\ generated[i] # generated'[Len(generated')]
           /\ LexLess(generated[i], generated'[Len(generated')]) ]_vars

\* the number a string of Crockford symbols denotes, most significant first
RECURSIVE Base32Value(_)
Base32Value(s) ==
  IF s = <<>> THEN 0
  ELSE Base32Value(SubSeq(s, 1, Len(s) - 1)) * 32 + (CharIndex(s[Len(s)]) - 1)

\* the number of base-32 symbols a number needs
RECURSIVE Symbols(_)
Symbols(n) == IF n < 32 THEN 1 ELSE 1 + Symbols(n \div 32)

\* C15: the identifier made from a timestamp and a tail is 26 symbols of the
\* Crockford alphabet whose base-32 value, most significant symbol first,
\* is (ts << tail width) | tail, left-padded with "0"; hence of two identifiers the one of the
\* smaller value is the lexicographically smaller string.
C15_EncodingExactAndOrdered ==
  /\ \A i \in 1..Len(generated) :
       /\ Len(generated[i]) = 26
       /\ \A k \in 1..Len(generated[i]) :
            \E c \in 1..32 : CROCKFORD_ALPHABET[c] = generated[i][k]
  /\ Len(generated) > 0
       => LET value == last_timestamp * Pow2(RandomBits) + (last_random % Pow2(RandomBits))
              id == generated[Len(generated)]
          IN /\ \A k \in 1..(26 - Symbols(value)) : id[k] = "0"
             /\ Base32Value(id) = value
  /\ \A i \in 1..Len(generated) : \A j \in 1..Len(generated) :
       Base32Value(generated[i]) < Base32Value(generated[j])
         => LexLess(generated[i], generated[j])

\* C15 witness: an identifier of one significant symbol and a later one of
\* three significant symbols.
C15_Witness ==
  \E i \in 1..Len(generated) : \E j \in 1..Len(generated) :
    /\ i < j
    /\ Base32Value(generated[i]) < 32
    /\ Base32Value(generated[j]) >= 32 * 32
    /\ generated[i][26] # "0"

\* the number of decimal digits of a number
RECURSIVE Digits(_)
Digits(n) == IF n < 10 THEN 1 ELSE 1 + Digits(n \div 10)

\* C16: the allocated serial is prefix + the decimal digits of the number,
\* zero-padded to at least width characters, + suffix; a number that needs
\* more than width digits is rendered in full, neither cut nor refused.
C16_RenderedNotTruncated ==
  \A p \in Procs :
    (pc[p] = "insert_device" /\ args[p].next_serial)
      => LET spec == dt[p].serial_number_spec
             prefix == SpecPrefix(spec)
             suffix == SpecSuffix(spec)
             width == SpecWidth(spec)
             n == MaxNum(prefix, suffix, SerialsOfType(p, dt[p].ulid)) + 1
             run == DigitRun(prefix, suffix, serial[p])
         IN /\ FullMatch(prefix, suffix, serial[p])
            /\ StrToInt(run) = n
            /\ Len(run) = IF Digits(n) > width THEN Digits(n) ELSE width

\* C16 witness: spec P{2} with greatest number 99 has allocated P100.
C16_Witness ==
  \E p \in Procs :
    /\ pc[p] = "insert_device"
    /\ args[p].next_serial
    /\ dt[p].serial_number_spec = <<"P", "{", "2", "}">>
    /\ serial[p] = <<"P", "1", "0", "0">>

\* filter occurs in field as it is written: same characters, same case
IsSubstring(filter, field) ==
  \E k \in 0..(Len(field) - Len(filter)) :
    SubSeq(field, k + 1, k + Len(filter)) = filter

\* C17: find_devices returns exactly the devices, joined with their type,
\* in whose fields every given filter occurs as a case-sensitive literal
\* substring (all devices when no filter is given), and changes no row.
C17_FindLiteralSubstring ==
  \A p \in Procs :
    (Finished(p, "find-device") /\ result[p] = "ok")
      => /\ found[p] =
              { r \in JoinedRows(p) :
                  /\ IsSubstring(args[p].manufacturer, r.manufacturer_name)
                  /\ IsSubstring(Chars(args[p].part_number), Chars(r.part_number))
                  /\ IsSubstring(args[p].serial, r.serial_number)
                  /\ IsSubstring(args[p].model, r.model) }
         /\ written[p] = {}

\* C18: the serial _generate_next_serial returns is the serial_number of no
\* existing device, of this type or another, so a create-device --next-serial
\* on a type with a well-formed spec never fails on a duplicate serial.
C18_AllocationNeverCollides ==
  \A p \in Procs :
    /\ (pc[p] = "insert_device" /\ args[p].next_serial)
         => \A d \in ViewDevice(p) : d.serial_number # serial[p]
    /\ (Finished(p, "create-device") /\ args[p].next_serial)
         => result[p] # "IntegrityError"

\* C20: create-device --next-serial with count <= 0 calls the allocator
\* never and inserts nothing: it opens a transaction, commits it empty and,
\* unless the part number is unknown or the store fails, succeeds with an
\* empty created list; no device or history row is written.
C20_EmptyBatch ==
  \A p \in Procs :
    (args[p].command = "create-device" /\ args[p].next_serial /\ args[p].count <= 0)
      => /\ pc[p] \in {"loop", "done"}
         /\ pc[p] = "loop" => in_tx[p]
         /\ tx[p] = EmptyTx
         /\ created[p] = <<>>
         /\ written[p] = {}
         /\ raised[p] \in {"none", "OperationalError"}
         /\ pc[p] = "done" =>
              result[p] \in {"ok", "UnknownPartNumber", "OperationalError",
                              "NoTransactionError"}

\* C20 witness: a batch of count -1 has succeeded while devices are in the
\* store.
C20_Witness ==
  \E p \in Procs :
    /\ Finished(p, "create-device")
    /\ args[p].next_serial
    /\ args[p].count < 0
    /\ result[p] = "ok"
    /\ device # {}

=============================================================================
